---- MODULE Spec2Model ----
(***************************************************************************)
(* Model of ops/monitor/goals_monitor.py: the scheduler loop of main(),    *)
(* the alert state machine and its notifications (send_telegram), the      *)
(* state file (load_state / save_state), the samples log (append, daily    *)
(* scan, prune through a temporary file) and the daily summary; and, taken *)
(* on their own, probe_url and calculate_percentile.                       *)
(*                                                                         *)
(* Python values are modelled as follows.                                  *)
(*   - a str holding a date is the sequence of its digits, compared the    *)
(*     way Python compares strings (lexicographically);                    *)
(*   - the object returned by json.load is [py |-> "dict", items |-> f]    *)
(*     with f a function on the keys that are present, or [py |-> "list"]  *)
(*     for a JSON value that is not an object; subscripting a missing key  *)
(*     (or a list by a str) raises;                                        *)
(*   - a file is absent, unparseable, or holds one JSON value;             *)
(*   - a line of samples.jsonl is a record saying whether json.loads and   *)
(*     ["resources"]["timestamp"] succeed on it and which of the other     *)
(*     fields it has.                                                      *)
(***************************************************************************)
EXTENDS Integers, Sequences, FiniteSets, TLC

VARIABLES
    pc,          \* "start": main() is about to call load_state (line 256); "loop": between two ticks
    state,       \* the dict `state` of main(); stale while pc = "start"
    stateFile,   \* contents of STATE_FILE
    samples,     \* contents of SAMPLES_FILE, a sequence of lines
    tempFile,    \* SAMPLES_FILE + ".tmp": whether it exists and the lines it holds
    credentials, \* BOT_TOKEN and CHAT_ID are both set (lines 16-17)
    now,         \* the UTC wall clock seen by the current tick
    last,        \* what the most recent step did (observation only)
    runLen,      \* number of ticks of this process in the current unbroken run of failing ticks
    runStart,    \* last_alert_status when the current run of failing ticks began
    summarized,  \* dates this process has stored in last_summary_date
    runFired,    \* alerts this process has fired in the current run of ticks of one outcome
    notes,       \* the alerts and recovery notices this process has fired, in order
    boots,       \* number of times load_state has run
    ticks,       \* number of ticks taken (bounded by MaxTicks)
    faults,      \* number of I/O failures and kills injected (bounded by MaxFaults)
    call         \* a call of probe_url or calculate_percentile taken on its own

vars == <<pc, state, stateFile, samples, tempFile, credentials, now, last, runLen,
          runStart, summarized, runFired, notes, boots, ticks, faults, call>>

----------------------------------------------------------------------------
(* Bounds of the model *)

\* ticks explored when the ticks fall at any times (Spec)
MaxTicks == 3
\* ticks explored when the ticks fall on the fixed cadence (SpecDefault)
MaxRun == 6
\* ticks explored when the probes fail or succeed together (SpecStreak)
MaxStreak == 9
\* I/O failures and kills injected in one behaviour
MaxFaults == 1
\* the last day of the clock; days are numbered so that their two digit
\* dates pass from "09" to "10"
MaxDay == 10
FirstDay == MaxDay - 1
\* lines the samples file may hold when the daemon starts
MaxInitLines == 1
\* length of the series given to calculate_percentile
MaxData == 3

(* Program constants *)

\* GOALS_MONITOR_RETENTION_DAYS, line 20 (default 30): the model runs with a
\* retention of one day so that the cutoff falls inside the days it covers
RETENTION_DAYS == 1
AlertThreshold == 3
RecoveryThreshold == 3
WindowHour == 0
WindowMinute == 5

Status == {"UP", "DOWN"}

----------------------------------------------------------------------------
(* Strings of digits and dates *)

\* Python's  a < b  on two str values
StrLess(a, b) ==
    \/ \E i \in 1..Len(a) :
          /\ i <= Len(b)
          /\ \A j \in 1..(i - 1) : a[j] = b[j]
          /\ a[i] < b[i]
    \/ /\ Len(a) < Len(b)
       /\ \A j \in 1..Len(a) : a[j] = b[j]

\* Python's  a >= b  on two str values
StrGE(a, b) == ~StrLess(a, b)

\* strftime("%Y-%m-%d"): fixed width, zero padded
strftime(d) == <<d \div 10, d % 10>>

\* the day number a date string stands for
DayOf(s) == s[1] * 10 + s[2]

EmptyStr == << >>

----------------------------------------------------------------------------
(* Python dicts and the state file *)

PyDict(f) == [py |-> "dict", items |-> f]
PyList == [py |-> "list"]
NoObject == [py |-> "none"]

\* s[k] does not raise
HasKey(s, k) == s.py = "dict" /\ k \in DOMAIN s.items

\* s[k] = v on a dict
SetItem(s, k, v) ==
    PyDict([x \in (DOMAIN s.items) \cup {k} |-> IF x = k THEN v ELSE s.items[x]])

\* s.get(k) == v
GetEquals(s, k, v) == HasKey(s, k) /\ s.items[k] = v

StateKeys == {"last_alert_status", "consecutive_failures",
              "consecutive_successes", "last_summary_date"}

\* the literal returned at the end of load_state
DefaultState ==
    PyDict([last_alert_status |-> "UP",
            consecutive_failures |-> 0,
            consecutive_successes |-> 0,
            last_summary_date |-> EmptyStr])

AlertState(las, cf, cs, lsd) ==
    PyDict([last_alert_status |-> las,
            consecutive_failures |-> cf,
            consecutive_successes |-> cs,
            last_summary_date |-> lsd])

\* a dict with every field of the Alert State
IsAlertState(s) == s.py = "dict" /\ DOMAIN s.items = StateKeys

Absent == [kind |-> "absent"]
Unparseable == [kind |-> "unparseable"]
Json(v) == [kind |-> "json", value |-> v]

load_state(file) ==
    IF file.kind = "json" THEN file.value ELSE DefaultState

\* a save that leaves the file as it was
save_state_forgotten(file, s, outcome) == file

\* open(STATE_FILE, "w") truncates the file, json.dump then writes it.
\*   "ok"          both succeed
\*   "open_fails"  open raises, the file is untouched
\*   "write_fails" the file was truncated and the write raised part way
\*   "killed"      the process died between the truncation and the end of the write
save_state(file, s, outcome) ==
    CASE outcome = "ok" -> Json(s)
      [] outcome = "open_fails" -> file
      [] OTHER -> Unparseable

SaveOutcomes == {"open_fails", "write_fails", "killed"}

----------------------------------------------------------------------------
(* Alert state machine, lines 277-299 *)

\* the counter update without the reset of the other counter
UpdateCounters_noreset(s, up) ==
    LET inc == IF up THEN "consecutive_successes" ELSE "consecutive_failures"
    IN  IF ~HasKey(s, inc)
        THEN [state |-> s, exc |-> TRUE]
        ELSE [state |-> SetItem(s, inc, s.items[inc] + 1), exc |-> FALSE]

\* lines 279-284; exc when the += raises
UpdateCounters(s, up) ==
    LET inc == IF up THEN "consecutive_successes" ELSE "consecutive_failures"
        zero == IF up THEN "consecutive_failures" ELSE "consecutive_successes"
    IN  IF ~HasKey(s, inc)
        THEN [state |-> s, exc |-> TRUE]
        ELSE [state |-> SetItem(SetItem(s, inc, s.items[inc] + 1), zero, 0),
              exc |-> FALSE]

\* the falling edge without the test of last_alert_status
FallingEdge_nostatus(s) ==
    IF s.items["consecutive_failures"] = AlertThreshold
    THEN [state |-> SetItem(s, "last_alert_status", "DOWN"), exc |-> FALSE, fired |-> {"DOWN"}]
    ELSE [state |-> s, exc |-> FALSE, fired |-> {}]

\* the falling edge that sends the alert and does not record it
FallingEdge_unrecorded(s) ==
    IF s.items["consecutive_failures"] = AlertThreshold
    THEN IF ~HasKey(s, "last_alert_status")
         THEN [state |-> s, exc |-> TRUE, fired |-> {}]
         ELSE IF s.items["last_alert_status"] = "UP"
              THEN [state |-> s, exc |-> FALSE, fired |-> {"DOWN"}]
              ELSE [state |-> s, exc |-> FALSE, fired |-> {}]
    ELSE [state |-> s, exc |-> FALSE, fired |-> {}]

\* lines 287-294; the `and` is evaluated left to right, so a missing
\* last_alert_status raises only when the counter equals the threshold
FallingEdge(s) ==
    IF s.items["consecutive_failures"] = AlertThreshold
    THEN IF ~HasKey(s, "last_alert_status")
         THEN [state |-> s, exc |-> TRUE, fired |-> {}]
         ELSE IF s.items["last_alert_status"] = "UP"
              THEN [state |-> SetItem(s, "last_alert_status", "DOWN"),
                    exc |-> FALSE, fired |-> {"DOWN"}]
              ELSE [state |-> s, exc |-> FALSE, fired |-> {}]
    ELSE [state |-> s, exc |-> FALSE, fired |-> {}]

\* the recovery edge firing one success early
RecoveryEdge_early(s) ==
    IF s.items["consecutive_successes"] >= RecoveryThreshold - 1
    THEN IF ~HasKey(s, "last_alert_status")
         THEN [state |-> s, exc |-> TRUE, fired |-> {}]
         ELSE IF s.items["last_alert_status"] = "DOWN"
              THEN [state |-> SetItem(s, "last_alert_status", "UP"),
                    exc |-> FALSE, fired |-> {"RECOVERY"}]
              ELSE [state |-> s, exc |-> FALSE, fired |-> {}]
    ELSE [state |-> s, exc |-> FALSE, fired |-> {}]

\* lines 297-299
RecoveryEdge(s) ==
    IF s.items["consecutive_successes"] = RecoveryThreshold
    THEN IF ~HasKey(s, "last_alert_status")
         THEN [state |-> s, exc |-> TRUE, fired |-> {}]
         ELSE IF s.items["last_alert_status"] = "DOWN"
              THEN [state |-> SetItem(s, "last_alert_status", "UP"),
                    exc |-> FALSE, fired |-> {"RECOVERY"}]
              ELSE [state |-> s, exc |-> FALSE, fired |-> {}]
    ELSE [state |-> s, exc |-> FALSE, fired |-> {}]

\* lines 118-135: what becomes of a message given to send_telegram.  The
\* function returns normally in the three cases:
\*   "skipped"  BOT_TOKEN or CHAT_ID is unset (lines 119-121)
\*   "sent"     the request went through
\*   "failed"   the request raised, caught at line 134
send_telegram(cred, requestOk) ==
    IF ~cred THEN "skipped"
    ELSE IF requestOk THEN "sent" ELSE "failed"

\* an alert logic that takes the transition back when the message did not
\* go out
AlertLogic_delivered(s, fe, be, out) ==
    LET is_currently_up == (fe = "UP" /\ be = "UP")
        u == UpdateCounters(s, is_currently_up)
    IN  IF u.exc THEN [state |-> u.state, raised |-> "counters", fired |-> {}]
        ELSE LET f == FallingEdge(u.state)
             IN  IF f.exc THEN [state |-> f.state, raised |-> "falling", fired |-> {}]
                 ELSE LET r == RecoveryEdge(f.state)
                      IN  IF r.exc
                          THEN [state |-> r.state, raised |-> "recovery", fired |-> f.fired]
                          ELSE [state |-> IF out = "sent" THEN r.state ELSE u.state,
                                raised |-> "",
                                fired |-> f.fired \cup r.fired]

\* lines 277-299 as a whole: where the tick stopped ("" when it went through).
\* out is what send_telegram does with the messages of lines 293 and 298: it
\* returns in every case, so the assignments of lines 294 and 299 follow
AlertLogic(s, fe, be, out) ==
    LET is_currently_up == (fe = "UP" /\ be = "UP")
        u == UpdateCounters(s, is_currently_up)
    IN  IF u.exc THEN [state |-> u.state, raised |-> "counters", fired |-> {}]
        ELSE LET f == FallingEdge(u.state)
             IN  IF f.exc THEN [state |-> f.state, raised |-> "falling", fired |-> {}]
                 ELSE LET r == RecoveryEdge(f.state)
                      IN  IF r.exc
                          THEN [state |-> r.state, raised |-> "recovery", fired |-> f.fired]
                          ELSE [state |-> r.state, raised |-> "",
                                fired |-> f.fired \cup r.fired]

----------------------------------------------------------------------------
(* Probes, lines 88-116 *)

\* a URL is the sequence of the pieces of its text; line 106 looks for the
\* piece "auth/validate" anywhere in it
FE_URL == <<"https://", "HOST_URL", "/">>
BE_URL == <<"https://", "HOST_URL", "/api/", "auth/validate">>

\* "auth/validate" in url
ContainsAuthValidate(url) == \E i \in 1..Len(url) : url[i] = "auth/validate"

\* what the server answers to the request urlopen ends on (redirects of 301,
\* 302, 303 and 307 are followed inside urlopen), or the way the connection
\* fails
HttpCodes == {200, 201, 204, 300, 304, 400, 401, 403, 404, 429, 500, 502, 503}

Response(code) == [kind |-> "response", code |-> code]
Timeout == [kind |-> "timeout", code |-> 0]
Refused == [kind |-> "refused", code |-> 0]

\* urllib.request.urlopen, line 100: a response is returned only for a 2xx
\* code; every other code is raised as urllib.error.HTTPError, a failed or
\* timed out connection as URLError / socket.timeout
urlopen(outcome) ==
    IF outcome.kind = "response"
    THEN IF outcome.code >= 200 /\ outcome.code < 300
         THEN [raises |-> "none", code |-> outcome.code]
         ELSE [raises |-> "HTTPError", code |-> outcome.code]
    ELSE [raises |-> "Exception", code |-> 0]

\* lines 88-116: the status and the code of the result
probe_url(url, outcome) ==
    LET r == urlopen(outcome)
    IN  CASE r.raises = "none" ->
               [status |-> IF r.code \in {200, 304} THEN "UP" ELSE "DOWN",
                code |-> r.code]
          [] r.raises = "HTTPError" ->
               [status |-> IF ContainsAuthValidate(url) /\ r.code = 401
                           THEN "UP" ELSE "DOWN",
                code |-> r.code]
          [] OTHER -> [status |-> "DOWN", code |-> 0]

----------------------------------------------------------------------------
(* Percentile, lines 155-163.  The numbers are integers and the result is *)
(* given in hundredths, so that the arithmetic of idx is exact.           *)

\* s with x put behind its elements that are <= x
Insert(s, x) ==
    LET k == Cardinality({i \in 1..Len(s) : s[i] <= x})
    IN  SubSeq(s, 1, k) \o <<x>> \o SubSeq(s, k + 1, Len(s))

RECURSIVE sorted(_)
\* sorted(data), line 157
sorted(data) ==
    IF Len(data) = 0 THEN << >>
    ELSE Insert(sorted(SubSeq(data, 1, Len(data) - 1)), data[Len(data)])

\* the percentile taken on the series as it is given
calculate_percentile_unsorted(data, p) ==
    IF Len(data) = 0 THEN 0
    ELSE LET idx == (Len(data) - 1) * p
             floor == idx \div 100
             ceil == floor + 1
         IN  IF ceil < Len(data)
             THEN data[floor + 1] * 100
                    + (data[ceil + 1] - data[floor + 1]) * (idx - floor * 100)
             ELSE data[floor + 1] * 100

\* lines 155-163.  idx is (len(data) - 1) * p / 100.0 in hundredths, floor is
\* int(idx); Python's data[floor] is sorted(data)[floor + 1] here
calculate_percentile(data, p) ==
    IF Len(data) = 0 THEN 0
    ELSE LET d == sorted(data)
             idx == (Len(d) - 1) * p
             floor == idx \div 100
             ceil == floor + 1
         IN  IF ceil < Len(d)
             THEN d[floor + 1] * 100 + (d[ceil + 1] - d[floor + 1]) * (idx - floor * 100)
             ELSE d[floor + 1] * 100

----------------------------------------------------------------------------
(* The samples log *)

\* the date part ([:10]) of datetime.isoformat(): zero padded like strftime
isoformat_date(d) == <<d \div 10, d % 10>>

\* A line of SAMPLES_FILE.
\*   ok   json.loads(line)["resources"]["timestamp"][:10] evaluates (to ts)
\*   fe   s["frontend"]["status"], or "missing" when that lookup raises
\*   be   s["backend"]["status"], or "missing" when that lookup raises
\*   res  s["resources"] has mem_percent and disk_percent
Line(ts, fe, be, res) == [ok |-> TRUE, ts |-> ts, fe |-> fe, be |-> be, res |-> res]
Garbage == [ok |-> FALSE, ts |-> EmptyStr, fe |-> "missing", be |-> "missing", res |-> FALSE]

\* the line main() writes at lines 265-273
Sample(fe, be, day) == Line(isoformat_date(day), fe, be, TRUE)

\* a complete Sample Record
IsSampleRecord(l) == l.ok /\ l.fe \in Status /\ l.be \in Status /\ l.res

\* lines 272-273; exc when the open or the write raises
AppendSample(smp, l, appendOk) ==
    IF appendOk THEN [samples |-> Append(smp, l), exc |-> FALSE]
    ELSE [samples |-> smp, exc |-> TRUE]

ZeroCounts == [total_samples |-> 0, fe_up_count |-> 0, be_up_count |-> 0,
               both_up_count |-> 0, mem_n |-> 0]

\* the body of the scan loop, lines 185-207, on one line: every statement
\* executed before a lookup raises keeps its effect
ScanLine(acc, l, yesterday) ==
    IF ~l.ok THEN acc
    ELSE IF l.ts # yesterday THEN acc
    ELSE LET a1 == [acc EXCEPT !.total_samples = @ + 1]
         IN  IF l.fe = "missing" \/ l.be = "missing" THEN a1
             ELSE LET a2 == [a1 EXCEPT
                               !.fe_up_count = IF l.fe = "UP" THEN @ + 1 ELSE @,
                               !.be_up_count = IF l.be = "UP" THEN @ + 1 ELSE @,
                               !.both_up_count =
                                   IF l.fe = "UP" /\ l.be = "UP" THEN @ + 1 ELSE @]
                  IN  IF ~l.res THEN a2 ELSE [a2 EXCEPT !.mem_n = @ + 1]

RECURSIVE Scan(_, _, _)
\* lines 177-207: the counts after reading the first n lines
Scan(smp, n, yesterday) ==
    IF n = 0 THEN ZeroCounts
    ELSE ScanLine(Scan(smp, n - 1, yesterday), smp[n], yesterday)

\* a prune that drops the records dated exactly at the cutoff
KeepLine_strict(l, cutoff) == l.ok /\ StrLess(cutoff, l.ts)

\* lines 245-249: the line is written to the temporary file
KeepLine(l, cutoff) == l.ok /\ StrGE(l.ts, cutoff)

\* the lines the loop of lines 243-249 writes, in the order it reads them
KeptLines(smp, day) ==
    SelectSeq(smp, LAMBDA l : KeepLine(l, strftime(day - RETENTION_DAYS)))

\* the temporary file of prune_samples (line 240)
NoTemp == [exists |-> FALSE, lines |-> << >>]
TempOf(lines) == [exists |-> TRUE, lines |-> lines]

\* the first n lines of a file (the whole file when it has fewer)
Prefix(lines, n) == SubSeq(lines, 1, IF n < Len(lines) THEN n ELSE Len(lines))

\* prune_samples runs to its end
NoStop == 0 - 1

\* a prune that rewrites SAMPLES_FILE in place instead of a temporary file
prune_samples_inplace(smp, tmp, day, stop) ==
    LET kept == KeptLines(smp, day)
    IN  IF stop = NoStop
        THEN [samples |-> kept, temp |-> tmp, stopped |-> FALSE]
        ELSE IF stop = 0
        THEN [samples |-> smp, temp |-> tmp, stopped |-> TRUE]
        ELSE [samples |-> Prefix(kept, stop - 1), temp |-> tmp, stopped |-> TRUE]

\* lines 238-252.  stop says where the function is interrupted, by an
\* exception (caught at line 251) or by the death of the process:
\*   NoStop  nowhere: the temporary file is written, closed and renamed over
\*           SAMPLES_FILE by os.replace (line 250)
\*   0       one of the two open() of line 242 raises: no file is touched
\*   k > 0   the temporary file was created (or truncated) and k - 1 of the
\*           kept lines were written; with every kept line written the
\*           interruption is at os.replace, before the rename takes place
\* SAMPLES_FILE itself is only opened for reading, and replaced as a whole.
prune_samples(smp, tmp, day, stop) ==
    LET kept == KeptLines(smp, day)
    IN  IF stop = NoStop
        THEN [samples |-> kept, temp |-> NoTemp, stopped |-> FALSE]
        ELSE IF stop = 0
        THEN [samples |-> smp, temp |-> tmp, stopped |-> TRUE]
        ELSE [samples |-> smp, temp |-> TempOf(Prefix(kept, stop - 1)),
              stopped |-> TRUE]

----------------------------------------------------------------------------
(* Daily summary, lines 165-236 and 301-304 *)

\* line 303
InWindow(t) == t.hour = WindowHour /\ t.minute >= WindowMinute

\* a guard that never stops the summary
AlreadySummarized_never(s, yesterday) == FALSE

\* line 167
AlreadySummarized(s, yesterday) == GetEquals(s, "last_summary_date", yesterday)

\* a summary that prunes the log also when it found no sample
run_daily_summary_pruning(s, smp, tmp, day, scanOk, stop) ==
    LET yesterday == strftime(day - 1)
        c == Scan(smp, Len(smp), yesterday)
        p == prune_samples(smp, tmp, day, stop)
    IN  IF AlreadySummarized(s, yesterday)
        THEN [state |-> s, samples |-> smp, temp |-> tmp, summary |-> "skipped",
              fired |-> {}, pruned |-> "no"]
        ELSE IF ~scanOk
        THEN [state |-> s, samples |-> smp, temp |-> tmp, summary |-> "raised",
              fired |-> {}, pruned |-> "no"]
        ELSE [state |-> SetItem(s, "last_summary_date", yesterday),
              samples |-> p.samples, temp |-> p.temp,
              summary |-> IF c.total_samples = 0 THEN "empty" ELSE "report",
              fired |-> IF c.total_samples = 0 THEN {} ELSE {"REPORT"},
              pruned |-> IF p.stopped THEN "failed" ELSE "ok"]

\* lines 165-236.  summary: "skipped" (line 168), "empty" (line 212), "report",
\* or "raised" when the log cannot be opened or read (lines 183-184, outside
\* the try of line 185) and the exception leaves the function
run_daily_summary(s, smp, tmp, day, scanOk, stop) ==
    LET yesterday == strftime(day - 1)
        c == Scan(smp, Len(smp), yesterday)
        p == prune_samples(smp, tmp, day, stop)
    IN  IF AlreadySummarized(s, yesterday)
        THEN [state |-> s, samples |-> smp, temp |-> tmp, summary |-> "skipped",
              fired |-> {}, pruned |-> "no"]
        ELSE IF ~scanOk
        THEN [state |-> s, samples |-> smp, temp |-> tmp, summary |-> "raised",
              fired |-> {}, pruned |-> "no"]
        ELSE IF c.total_samples = 0
        THEN [state |-> SetItem(s, "last_summary_date", yesterday), samples |-> smp,
              temp |-> tmp, summary |-> "empty", fired |-> {}, pruned |-> "no"]
        ELSE [state |-> SetItem(s, "last_summary_date", yesterday),
              samples |-> p.samples, temp |-> p.temp,
              summary |-> "report", fired |-> {"REPORT"},
              pruned |-> IF p.stopped THEN "failed" ELSE "ok"]

\* lines 301-304
DailySummaryCheck(s, smp, tmp, t, scanOk, stop) ==
    IF InWindow(t)
    THEN run_daily_summary(s, smp, tmp, t.day, scanOk, stop)
    ELSE [state |-> s, samples |-> smp, temp |-> tmp, summary |-> "none",
          fired |-> {}, pruned |-> "no"]

----------------------------------------------------------------------------
(* The clock *)

\* representative times of day: before the window, inside it, after it
TimesOfDay == {<<0, 4>>, <<0, 5>>, <<1, 5>>}

Clock == {[day |-> d, hour |-> h[1], minute |-> h[2]] :
              d \in FirstDay..MaxDay, h \in TimesOfDay}

\* the clock never runs backwards
NotBefore(t, u) ==
    \/ t.day > u.day
    \/ t.day = u.day /\ t.hour > u.hour
    \/ t.day = u.day /\ t.hour = u.hour /\ t.minute >= u.minute

----------------------------------------------------------------------------
(* The state files and sample logs the daemon may find when it starts *)

SeqsUpTo(S, n) == UNION {[1..k -> S] : k \in 0..n}

InitStateFiles ==
    { Absent,
      Unparseable,
      Json(PyList),
      Json(PyDict([last_alert_status |-> "UP", consecutive_successes |-> 0,
                   last_summary_date |-> EmptyStr])),
      Json(PyDict([consecutive_failures |-> 0, consecutive_successes |-> 0,
                   last_summary_date |-> EmptyStr])),
      Json(PyDict([last_alert_status |-> "UP", consecutive_failures |-> 0,
                   consecutive_successes |-> 0])),
      Json(AlertState("UP", 2, 0, EmptyStr)),
      Json(AlertState("DOWN", 3, 0, EmptyStr)),
      Json(AlertState("DOWN", 0, 2, EmptyStr)) }

InitLines ==
    { Garbage,
      Line(isoformat_date(FirstDay - 1), "UP", "UP", TRUE),
      Line(isoformat_date(FirstDay - 1), "missing", "UP", TRUE),
      Line(isoformat_date(FirstDay - 1), "DOWN", "UP", FALSE),
      Line(isoformat_date(FirstDay - 2), "UP", "DOWN", TRUE) }

NoStep == [kind |-> "init", fe |-> "UP", be |-> "UP", ended |-> "", fired |-> {},
           send |-> "none", summary |-> "none", pruned |-> "no", removed |-> 0]

InitCommon ==
    /\ pc = "start"
    /\ state = NoObject
    /\ tempFile = NoTemp
    /\ credentials \in BOOLEAN
    /\ now = [day |-> FirstDay, hour |-> 0, minute |-> 4]
    /\ last = NoStep
    /\ runLen = 0
    /\ runStart = "none"
    /\ summarized = {}
    /\ runFired = {}
    /\ notes = << >>
    /\ boots = 0
    /\ ticks = 0
    /\ faults = 0

\* no function is called on its own
NoCall == [fn |-> "none", arg |-> << >>, done |-> FALSE, result |-> << >>]

\* the daemon starts on a state file of any kind beside an empty log, or
\* without a state file beside a log of any kind
Init ==
    /\ InitCommon
    /\ \/ stateFile \in InitStateFiles /\ samples = << >>
       \/ stateFile = Absent /\ samples \in SeqsUpTo(InitLines, MaxInitLines)
    /\ call = NoCall

\* first start: no state file and an empty log
InitDefault == InitCommon /\ stateFile = Absent /\ samples = << >> /\ call = NoCall

----------------------------------------------------------------------------
(* Actions *)

\* line 256
LoadState ==
    /\ pc = "start"
    /\ state' = load_state(stateFile)
    /\ pc' = "loop"
    /\ last' = [NoStep EXCEPT !.kind = "load"]
    /\ runLen' = 0
    /\ runStart' = "none"
    /\ summarized' = {}
    /\ runFired' = {}
    /\ notes' = << >>
    /\ boots' = boots + 1
    /\ UNCHANGED <<stateFile, samples, tempFile, credentials, now, ticks, faults, call>>

\* the process is killed while it sleeps (line 311) and started again
Kill ==
    /\ pc = "loop"
    /\ faults < MaxFaults
    /\ pc' = "start"
    /\ faults' = faults + 1
    /\ last' = [NoStep EXCEPT !.kind = "kill"]
    /\ UNCHANGED <<state, stateFile, samples, tempFile, credentials, now, runLen,
                   runStart, summarized, runFired, notes, boots, ticks, call>>

\* what can go wrong in a tick, at most one failure per tick:
\*   "send"          the requests of send_telegram raise (caught at line 134)
\*   "append"        lines 272-273 raise
\*   "summary"       run_daily_summary raises while it opens or reads the log
\*   "prune"         something in prune_samples raises (caught at line 251)
\*   "prune_killed"  the process dies inside prune_samples
\*   "open_fails", "write_fails", "killed"   see save_state
Faults == {"none", "send", "append", "summary", "prune", "prune_killed",
           "open_fails", "write_fails", "killed"}

PruneFaults == {"prune", "prune_killed"}

\* the failures that end the process
Deaths == {"killed", "prune_killed"}

\* a loop that stops at the first exception of a tick
AfterTick_uncaught(ended) == IF ended = "ok" THEN "loop" ELSE "start"

\* where main() is after a tick: every exception raised in the try block of
\* lines 259-306 is caught at line 308 and the loop goes on to time.sleep and
\* to the next iteration; only the death of the process leads to a new start
AfterTick(ended) == IF ended \in Deaths THEN "start" ELSE "loop"

\* the points at which prune_samples can be interrupted by the failure
StopPoints(fault) ==
    IF fault \in PruneFaults THEN 0..(MaxInitLines + MaxRun + 1) ELSE {0}

\* the alert and the recovery notice
Alerts == {"DOWN", "RECOVERY"}

\* lines 259-309 on the in-memory state and the files; stop is the point
\* at which a failing prune_samples is interrupted
RunTick(s, file, smp, tmp, cred, t, fe, be, fault, stop) ==
    LET w == AppendSample(smp, Sample(fe, be, t.day), fault # "append")
        out == send_telegram(cred, fault # "send")
        a == AlertLogic(s, fe, be, out)
        d == DailySummaryCheck(a.state, w.samples, tmp, t, fault # "summary",
                               IF fault \in PruneFaults THEN stop ELSE NoStop)
        saveOutcome == IF fault \in SaveOutcomes THEN fault ELSE "ok"
    IN  IF w.exc
        THEN [state |-> s, file |-> file, samples |-> smp, temp |-> tmp,
              ended |-> "append", fired |-> {}, send |-> "none",
              summary |-> "none", pruned |-> "no"]
        ELSE IF a.raised # ""
        THEN [state |-> a.state, file |-> file, samples |-> w.samples, temp |-> tmp,
              ended |-> a.raised, fired |-> a.fired,
              send |-> IF a.fired = {} THEN "none" ELSE out,
              summary |-> "none", pruned |-> "no"]
        ELSE IF d.summary = "raised"
        THEN [state |-> d.state, file |-> file, samples |-> d.samples, temp |-> d.temp,
              ended |-> "summary", fired |-> a.fired,
              send |-> IF a.fired = {} THEN "none" ELSE out,
              summary |-> d.summary, pruned |-> d.pruned]
        ELSE IF fault = "prune_killed"
        THEN [state |-> d.state, file |-> file, samples |-> d.samples, temp |-> d.temp,
              ended |-> "prune_killed", fired |-> a.fired \cup d.fired,
              send |-> IF a.fired \cup d.fired = {} THEN "none" ELSE out,
              summary |-> d.summary, pruned |-> d.pruned]
        ELSE [state |-> d.state,
              file |-> save_state(file, d.state, saveOutcome),
              samples |-> d.samples, temp |-> d.temp,
              ended |-> saveOutcome,
              fired |-> a.fired \cup d.fired,
              send |-> IF a.fired \cup d.fired = {} THEN "none" ELSE out,
              summary |-> d.summary, pruned |-> d.pruned]

\* the step l was a tick of this process with the outcome up: a tick with
\* that outcome continues the run of ticks l belongs to
SameRun(l, up) == l.kind = "tick" /\ ((l.fe = "UP" /\ l.be = "UP") = up)

\* one iteration of the loop of main(), lines 258-311, run at time t
Tick(fe, be, fault, stop, t) ==
    LET up == (fe = "UP" /\ be = "UP")
        injected == IF fault = "none" THEN 0 ELSE 1
    IN  /\ pc = "loop"
        /\ faults + injected <= MaxFaults
        /\ NotBefore(t, now)
        /\ \E r \in {RunTick(state, stateFile, samples, tempFile, credentials,
                            t, fe, be, fault, stop)} :
            \* a failure is injected only into a step the tick executes
            /\ fault \in PruneFaults =>
                  /\ r.pruned = "failed"
                  /\ stop <= Len(KeptLines(Append(samples, Sample(fe, be, t.day)),
                                           t.day)) + 1
            /\ fault \in SaveOutcomes \cup {"summary"} => r.ended = fault
            /\ fault = "send" => r.send = "failed"
            /\ state' = r.state
            /\ stateFile' = r.file
            /\ samples' = r.samples
            /\ tempFile' = r.temp
            /\ pc' = AfterTick(r.ended)
            /\ now' = t
            /\ last' = [kind |-> "tick", fe |-> fe, be |-> be, ended |-> r.ended,
                        fired |-> r.fired, send |-> r.send,
                        summary |-> r.summary, pruned |-> r.pruned,
                        removed |-> IF r.pruned = "ok"
                                    THEN Len(samples) + 1 - Len(r.samples) ELSE 0]
            /\ runLen' = IF up THEN 0 ELSE runLen + 1
            /\ runStart' = IF up THEN "none"
                           ELSE IF runLen = 0
                                THEN (IF HasKey(state, "last_alert_status")
                                      THEN state.items["last_alert_status"] ELSE "none")
                                ELSE runStart
            /\ summarized' = IF r.summary \in {"empty", "report"}
                             THEN summarized \cup {strftime(t.day - 1)}
                             ELSE summarized
            /\ runFired' = (IF SameRun(last, up) THEN runFired ELSE {})
                               \cup (r.fired \cap Alerts)
            /\ notes' = notes \o (IF "DOWN" \in r.fired THEN <<"DOWN">> ELSE << >>)
                              \o (IF "RECOVERY" \in r.fired THEN <<"RECOVERY">> ELSE << >>)
            /\ ticks' = ticks + 1
            /\ faults' = faults + injected
            /\ UNCHANGED <<boots, call, credentials>>

\* ticks at any times that do not run backwards
Next ==
    \/ LoadState
    \/ Kill
    \/ /\ ticks < MaxTicks
       /\ \E fe \in Status, be \in Status, fault \in Faults, t \in Clock :
             \E stop \in StopPoints(fault) : Tick(fe, be, fault, stop, t)

Spec == Init /\ [][Next]_vars

\* the time of the k-th tick when the loop keeps a fixed cadence of four
\* ticks a day: one before the window, two inside it, one after it
Cadence == << <<0, 4>>, <<0, 5>>, <<0, 5>>, <<1, 5>> >>

Sched(k) ==
    LET tod == Cadence[((k - 1) % 4) + 1]
        d == FirstDay + ((k - 1) \div 4)
    IN  [day |-> d, hour |-> tod[1], minute |-> tod[2]]

\* ticks on the fixed cadence, so that longer runs of ticks are explored
NextDefault ==
    \/ LoadState
    \/ Kill
    \/ /\ ticks < MaxRun
       /\ \E fe \in Status, be \in Status, fault \in Faults :
             \E stop \in StopPoints(fault) :
                 Tick(fe, be, fault, stop, Sched(ticks + 1))

SpecDefault == InitDefault /\ [][NextDefault]_vars

\* the pairs of probe results of a long run: everything answers, or the
\* frontend does not
StreakPairs == {<<"UP", "UP">>, <<"DOWN", "UP">>}

\* ticks on the fixed cadence with the probes of StreakPairs, long enough for
\* an alert, a recovery and a second alert
NextStreak ==
    \/ LoadState
    \/ Kill
    \/ /\ ticks < MaxStreak
       /\ \E pr \in StreakPairs, fault \in Faults :
             \E stop \in StopPoints(fault) :
                 Tick(pr[1], pr[2], fault, stop, Sched(ticks + 1))

SpecStreak == InitDefault /\ [][NextStreak]_vars

----------------------------------------------------------------------------
(* probe_url and calculate_percentile called on their own *)

ProbeUrls ==
    { FE_URL, BE_URL,
      <<"https://", "HOST_URL", "/api/", "goals">>,
      <<"https://", "HOST_URL", "/login?next=", "auth/validate">> }

ProbeOutcomes == {Response(c) : c \in HttpCodes} \cup {Timeout, Refused}

ProbeCalls ==
    {[fn |-> "probe_url", arg |-> [url |-> u, outcome |-> o],
      done |-> FALSE, result |-> << >>] : u \in ProbeUrls, o \in ProbeOutcomes}

\* numbers a series is made of, and the percentiles asked for (line 216 asks
\* for the 99th)
SeriesValues == {10, 20, 30}
Percentiles == {0, 50, 99, 100}

PercentileCalls ==
    {[fn |-> "calculate_percentile", arg |-> [data |-> d, p |-> p],
      done |-> FALSE, result |-> << >>] :
        d \in SeqsUpTo(SeriesValues, MaxData), p \in Percentiles}

InitPure ==
    /\ InitCommon
    /\ stateFile = Absent
    /\ samples = << >>
    /\ credentials
    /\ call \in ProbeCalls \cup PercentileCalls

ProbeCall ==
    /\ call.fn = "probe_url"
    /\ ~call.done
    /\ call' = [call EXCEPT !.done = TRUE,
                            !.result = probe_url(call.arg.url, call.arg.outcome)]
    /\ UNCHANGED <<pc, state, stateFile, samples, tempFile, credentials, now, last,
                   runLen, runStart, summarized, runFired, notes, boots, ticks, faults>>

PercentileCall ==
    /\ call.fn = "calculate_percentile"
    /\ ~call.done
    /\ call' = [call EXCEPT !.done = TRUE,
                            !.result = calculate_percentile(call.arg.data, call.arg.p)]
    /\ UNCHANGED <<pc, state, stateFile, samples, tempFile, credentials, now, last,
                   runLen, runStart, summarized, runFired, notes, boots, ticks, faults>>

NextPure == ProbeCall \/ PercentileCall

SpecPure == InitPure /\ [][NextPure]_vars

----------------------------------------------------------------------------
(* Properties *)

Field(s, k) == s.items[k]

\* the tick got past the counter update of lines 279-284
ReachedAlertLogic(l) == l.kind = "tick" /\ l.ended \notin {"append", "counters"}

\* the tick ran to the end of the try block without raising
Completed(l) == l.kind = "tick" /\ l.ended = "ok"

\* C1: in the first process started on the default state, a DOWN alert is
\* fired in a tick if and only if the tick is the third of an unbroken run of
\* failing ticks that began while last_alert_status was UP.
C1_DownAlertOnThirdFailure ==
    (last.kind = "tick" /\ boots = 1) =>
        (("DOWN" \in last.fired) <=> (runLen = 3 /\ runStart = "UP"))

\* C2: in every tick last_alert_status goes from UP to DOWN, and a DOWN alert
\* is sent, exactly when after the counter update consecutive_failures is 3
\* and last_alert_status is UP.
C2_FallingEdgeExactlyAtThree ==
    [][last'.kind = "tick" =>
          LET cond == /\ ReachedAlertLogic(last')
                      /\ GetEquals(state', "consecutive_failures", 3)
                      /\ GetEquals(state, "last_alert_status", "UP")
              wentDown == /\ GetEquals(state, "last_alert_status", "UP")
                          /\ GetEquals(state', "last_alert_status", "DOWN")
          IN  /\ wentDown <=> cond
              /\ ("DOWN" \in last'.fired) <=> cond]_vars

C2_Witness ==
    /\ last.kind = "tick"
    /\ "DOWN" \in last.fired
    /\ GetEquals(state, "last_alert_status", "DOWN")
    /\ GetEquals(state, "consecutive_failures", 3)

\* C3: in every tick last_alert_status goes from DOWN to UP, and a recovery
\* notice is sent, exactly when the status was DOWN and consecutive_successes
\* reaches 3 in that tick; a failing tick never recovers.
C3_RecoveryExactlyAtThree ==
    [][last'.kind = "tick" =>
          LET cond == /\ ReachedAlertLogic(last')
                      /\ GetEquals(state, "last_alert_status", "DOWN")
                      /\ GetEquals(state', "consecutive_successes", 3)
              wentUp == /\ GetEquals(state, "last_alert_status", "DOWN")
                        /\ GetEquals(state', "last_alert_status", "UP")
              failing == ~(last'.fe = "UP" /\ last'.be = "UP")
          IN  /\ wentUp <=> cond
              /\ ("RECOVERY" \in last'.fired) <=> cond
              /\ failing => ~wentUp /\ "RECOVERY" \notin last'.fired]_vars

C3_Witness ==
    /\ last.kind = "tick"
    /\ "RECOVERY" \in last.fired
    /\ GetEquals(state, "last_alert_status", "UP")
    /\ GetEquals(state, "consecutive_successes", 3)

\* C4: started on the default state, whatever the ticks did (also the ones
\* that raised), both counters are >= 0 and never both nonzero, in memory and
\* in the state file.
CountersExclusive(s) ==
    /\ IsAlertState(s)
    /\ Field(s, "consecutive_failures") >= 0
    /\ Field(s, "consecutive_successes") >= 0
    /\ ~(Field(s, "consecutive_failures") # 0 /\ Field(s, "consecutive_successes") # 0)

C4_CountersNeverBothNonzero ==
    /\ state.py # "none" => CountersExclusive(state)
    /\ stateFile.kind = "json" => CountersExclusive(stateFile.value)

C4_Witness ==
    /\ last.kind = "tick"
    /\ last.ended \in {"append", "open_fails", "write_fails"}
    /\ ticks >= 3
    /\ GetEquals(state, "consecutive_successes", 2)

C6_SaveAllOrNothing ==
    [][last'.kind = "tick" => (stateFile' = stateFile \/ stateFile' = Json(state'))]_vars

\* a file holding a complete Alert State
WellFormedFile(f) == f.kind = "json" /\ IsAlertState(f.value)

\* C7: load_state returns the default state whenever the state file is
\* absent, unparseable, or parseable without being a complete Alert State.
C7_MalformedLoadsDefault ==
    [][(pc = "start" /\ pc' = "loop" /\ ~WellFormedFile(stateFile))
          => state' = DefaultState]_vars

\* C8: the daily summary runs in a tick only inside [00:05, 01:00) and with
\* last_summary_date different from yesterday; a date this process has
\* stored in last_summary_date is never reported or pruned for again.
C8_SummaryOncePerDate ==
    [][last'.kind = "tick" =>
          LET yesterday == <<(now'.day - 1) \div 10, (now'.day - 1) % 10>>
              minutes == now'.hour * 60 + now'.minute
          IN  /\ last'.summary \in {"empty", "report"} =>
                    /\ minutes >= 5 /\ minutes < 60
                    /\ ~GetEquals(state, "last_summary_date", yesterday)
              /\ ("REPORT" \in last'.fired \/ last'.pruned # "no") =>
                    yesterday \notin summarized]_vars

C8_Witness ==
    /\ last.kind = "tick"
    /\ last.summary = "skipped"
    /\ strftime(now.day - 1) \in summarized
    /\ last.fired = {}

\* C9: when the summary runs and the log holds no valid record dated
\* yesterday, no report is sent, last_summary_date becomes yesterday and
\* prune_samples is not called.
C9_NoRecordsNoReport ==
    [][(/\ last'.kind = "tick"
        /\ last'.summary \in {"empty", "report"}
        /\ \A i \in 1..Len(samples) :
              ~(IsSampleRecord(samples[i]) /\ samples[i].ts = strftime(now'.day - 1)))
          => /\ "REPORT" \notin last'.fired
             /\ GetEquals(state', "last_summary_date", strftime(now'.day - 1))
             /\ last'.pruned = "no"]_vars

\* a line that carries a date not older than the day d
RecordNotOlderThan(l, d) == l.ok /\ DayOf(l.ts) >= d

PruneExpected(smp, l, d) ==
    SelectSeq(Append(smp, l), LAMBDA x : RecordNotOlderThan(x, d))

\* C10: after a successful prune at date D with retention R the log holds
\* exactly the records of the log dated D - R or later, in their order and
\* unchanged.
C10_PruneKeepsRecentInOrder ==
    [][(last'.kind = "tick" /\ last'.pruned = "ok") =>
          samples' = PruneExpected(samples, Sample(last'.fe, last'.be, now'.day),
                                   now'.day - RETENTION_DAYS)]_vars

C10_Witness ==
    /\ last.kind = "tick"
    /\ last.pruned = "ok"
    /\ last.removed > 0
    /\ Len(samples) >= 2
    /\ \E i \in 1..Len(samples) : DayOf(samples[i].ts) = now.day - RETENTION_DAYS

RecordsDated(log, y) ==
    {i \in 1..Len(log) : IsSampleRecord(log[i]) /\ log[i].ts = y}

\* the counts of a scan that takes the Sample Records dated y and nothing else
ExactCounts(log, y) ==
    LET R == RecordsDated(log, y)
    IN  [total_samples |-> Cardinality(R),
         fe_up_count |-> Cardinality({i \in R : log[i].fe = "UP"}),
         be_up_count |-> Cardinality({i \in R : log[i].be = "UP"}),
         both_up_count |-> Cardinality({i \in R : log[i].fe = "UP" /\ log[i].be = "UP"}),
         mem_n |-> Cardinality(R)]

\* C12: when the daily summary scans the log for a date, total_samples, the
\* UP counts and the length of the memory/disk series are those of the Sample
\* Records carrying that date; a line that is unparseable or lacks a field adds
\* nothing to any of them.
C12_ScanCountsExactlyRecords ==
    [][(last'.kind = "tick" /\ last'.summary \in {"empty", "report"}) =>
          LET log == Append(samples, Sample(last'.fe, last'.be, now'.day))
              yesterday == strftime(now'.day - 1)
          IN  Scan(log, Len(log), yesterday) = ExactCounts(log, yesterday)]_vars

\* C13: probe_url answers UP exactly when the response code is 200 or 304, or
\* the code is 401 and the URL is the backend auth-validation URL; every other
\* code, a timeout and a failed connection give DOWN.
C13_ProbeClassification ==
    (call.fn = "probe_url" /\ call.done) =>
        LET o == call.arg.outcome
            up == /\ o.kind = "response"
                  /\ \/ o.code \in {200, 304}
                     \/ o.code = 401 /\ call.arg.url = BE_URL
        IN  call.result.status = (IF up THEN "UP" ELSE "DOWN")

\* the series that hold the numbers of d in some order
Reorderings(d) ==
    {[i \in 1..Len(d) |-> d[f[i]]] : f \in Permutations(1..Len(d))}

Smallest(d) == CHOOSE x \in {d[i] : i \in 1..Len(d)} : \A i \in 1..Len(d) : x <= d[i]
Largest(d) == CHOOSE x \in {d[i] : i \in 1..Len(d)} : \A i \in 1..Len(d) : x >= d[i]

\* C14: on a non-empty series in any order calculate_percentile gives the
\* smallest number for p = 0 and the largest for p = 100, gives the same
\* result for every reordering of the series, and gives 20 for 10, 20, 30 in
\* any order with p = 50 (results in hundredths).
C14_PercentileEndsAndOrder ==
    (call.fn = "calculate_percentile" /\ call.done /\ Len(call.arg.data) > 0) =>
        LET d == call.arg.data
            p == call.arg.p
        IN  /\ p = 0 => call.result = 100 * Smallest(d)
            /\ p = 100 => call.result = 100 * Largest(d)
            /\ \A e \in Reorderings(d) : calculate_percentile(e, p) = call.result
            /\ (p = 50 /\ d \in Reorderings(<<10, 20, 30>>)) => call.result = 100 * 20

C14_Witness ==
    /\ call.fn = "calculate_percentile"
    /\ call.done
    /\ call.arg.data = <<30, 10, 20>>
    /\ call.arg.p = 50
    /\ call.result = 2000

\* C15: every tick updates the counters from its pair of probes: with both
\* probes UP consecutive_successes grows by 1 and consecutive_failures becomes
\* 0, otherwise consecutive_failures grows by 1 and consecutive_successes
\* becomes 0.
C15_CountersFollowProbes ==
    [][last'.kind = "tick" =>
          IF last'.fe = "UP" /\ last'.be = "UP"
          THEN /\ GetEquals(state', "consecutive_successes",
                            Field(state, "consecutive_successes") + 1)
               /\ GetEquals(state', "consecutive_failures", 0)
          ELSE /\ GetEquals(state', "consecutive_failures",
                            Field(state, "consecutive_failures") + 1)
               /\ GetEquals(state', "consecutive_successes", 0)]_vars

\* C16: a tick whose append to the log raises goes on: the counters are
\* updated from its probes, the daily summary check is made (inside the window
\* the summary is called), and the state is saved in that tick.
C16_AppendFailureTickContinues ==
    [][(last'.kind = "tick" /\ last'.ended = "append") =>
          /\ IF last'.fe = "UP" /\ last'.be = "UP"
             THEN GetEquals(state', "consecutive_successes",
                            Field(state, "consecutive_successes") + 1)
             ELSE GetEquals(state', "consecutive_failures",
                            Field(state, "consecutive_failures") + 1)
          /\ InWindow(now') => last'.summary # "none"
          /\ stateFile' = Json(state')]_vars

\* the steps of a tick that can raise
Raised == {"append", "counters", "falling", "recovery", "summary",
           "open_fails", "write_fails"}

\* C17: whatever step of a tick raises (the append, the state update on a
\* malformed loaded state, the daily summary, the save), the tick counts as
\* done and main() is back in its loop, from where the next tick starts.
C17_LoopSurvivesTickFailure ==
    [][(last'.kind = "tick" /\ last'.ended \in Raised) =>
          (pc' = "loop" /\ ticks' = ticks + 1)]_vars

\* a third tick has been taken by a process whose every tick raises
C17_Witness ==
    /\ last.kind = "tick"
    /\ last.ended = "counters"
    /\ state = PyList
    /\ ticks = 3
    /\ boots = 1
    /\ pc = "loop"

\* C18: a tick calls prune_samples only when its daily summary produced a
\* report and stored yesterday in last_summary_date, for a date this process
\* had not summarized before; a tick whose summary did not run, was skipped,
\* raised or found no sample leaves the log (but for its own append) and the
\* temporary file as they were.
C18_PruneOnlyAfterReport ==
    [][last'.kind = "tick" =>
          LET yesterday == strftime(now'.day - 1)
          IN  /\ last'.pruned # "no" =>
                    /\ last'.summary = "report"
                    /\ "REPORT" \in last'.fired
                    /\ GetEquals(state', "last_summary_date", yesterday)
                    /\ yesterday \notin summarized
              /\ last'.summary # "report" =>
                    /\ last'.pruned = "no"
                    /\ samples' \in {samples,
                                     Append(samples, Sample(last'.fe, last'.be, now'.day))}
                    /\ tempFile' = tempFile]_vars

C18_Witness ==
    /\ last.kind = "tick"
    /\ last.summary = "report"
    /\ last.pruned = "ok"
    /\ last.removed > 0
    /\ GetEquals(state, "last_summary_date", strftime(now.day - 1))
    /\ ticks >= 2

\* C19: a tick that fires an alert or a recovery notice whose message is not
\* delivered (the request fails, or the credentials are unset and the send is
\* skipped) still changes last_alert_status and does not raise at the
\* notification; a tick in which the request fails runs to its end and saves
\* the state; and no tick fires an alert that this process has already fired
\* in the same run of failing (or succeeding) ticks.
C19_TransitionWithoutDelivery ==
    [][last'.kind = "tick" =>
          LET undelivered == last'.send \in {"failed", "skipped"}
              up == (last'.fe = "UP" /\ last'.be = "UP")
          IN  /\ (undelivered /\ "DOWN" \in last'.fired) =>
                    /\ GetEquals(state, "last_alert_status", "UP")
                    /\ GetEquals(state', "last_alert_status", "DOWN")
              /\ (undelivered /\ "RECOVERY" \in last'.fired) =>
                    /\ GetEquals(state, "last_alert_status", "DOWN")
                    /\ GetEquals(state', "last_alert_status", "UP")
              /\ (undelivered /\ last'.fired \cap Alerts # {}) =>
                    last'.ended \notin {"counters", "falling", "recovery"}
              /\ last'.send = "failed" =>
                    (last'.ended = "ok" /\ stateFile' = Json(state'))
              /\ SameRun(last, up) => last'.fired \cap runFired = {}]_vars

\* without credentials the alert of the third failing tick was skipped, and
\* the fourth failing tick of the run fires nothing
C19_Witness ==
    /\ ~credentials
    /\ last.kind = "tick"
    /\ runLen = 4
    /\ notes = <<"DOWN">>
    /\ runFired = {"DOWN"}
    /\ last.fired = {}
    /\ GetEquals(state, "last_alert_status", "DOWN")
    /\ stateFile = Json(state)

\* DOWN, RECOVERY, DOWN, ...
Alternating(n) ==
    \A i \in 1..Len(n) : n[i] = (IF i % 2 = 1 THEN "DOWN" ELSE "RECOVERY")

\* C20: in the first process, started on the default state, the alerts and
\* recovery notices fired so far alternate and begin with a DOWN alert, and
\* no tick fires both.
C20_NotificationsAlternate ==
    boots = 1 =>
        /\ Alternating(notes)
        /\ ~("DOWN" \in last.fired /\ "RECOVERY" \in last.fired)

C20_Witness ==
    /\ boots = 1
    /\ last.kind = "tick"
    /\ "DOWN" \in last.fired
    /\ notes = <<"DOWN", "RECOVERY", "DOWN">>

====
